---- MODULE Spec2Model ----
(***************************************************************************)
(* Verification model of the Strava stats overlay creator.                *)
(*                                                                         *)
(*   - formatPace                    (src/app/lib/strava.ts)               *)
(*   - the crop, font, wrap and overlay geometry of renderCanvas           *)
(*   - the overlay position model: presets and dragging                    *)
(*   - the debounced repaint, the width update and the render parameters   *)
(*                                   (src/app/components/ImageEditor.tsx)  *)
(*   - the token refresh of the activity routes and the session cookies   *)
(*                  (src/app/api/strava/activities, src/app/api/auth)      *)
(*   - the activity list, its pages and the choice of an activity          *)
(*          (src/app/components/ActivitySelector.tsx, src/app/page.tsx)    *)
(*                                                                         *)
(* Lengths are pixels.  Numbers that the code keeps as floating point are  *)
(* kept exact: as integers where the code rounds them, as fractions        *)
(* <<numerator, denominator>> in the crop computation.                     *)
(***************************************************************************)
EXTENDS Integers, Sequences, FiniteSets, TLC

VARIABLES
    speedIn,    \* formatPace: the argument speedInMetersPerSecond
    paceOut,    \* formatPace: the returned string, as a sequence of characters
    cropIn,     \* crop: [iw, ih, aspectRatio, verticalCropPosition]
    cropOut,    \* crop: the canvas size and the source rectangle of drawImage
    wrapIn,     \* title wrap: [words, width, padding]
    wrapOut,    \* title wrap: the lines of the line-count pass and of the painting pass
    fontIn,     \* font sizing: [canvasHeight, fontSizePercent]
    fontOut,    \* font sizing: fontSize
    widthIn,    \* width update: [width, hasSetWidth, maxTextWidth]
    widthOut,   \* width update: statsPosition after the update, and which revision ran
    request,    \* the request that an API route is serving, and how far it has got
    cookies,    \* the browser's cookie jar: the access token and the refresh token
    activity,             \* the activity prop of ImageEditor
    selectedImage,        \* useState: the data URL of the chosen image
    imageRef,             \* useRef: the loaded image
    loading,              \* the images whose load event is still to come
    aspectRatio,          \* useState
    verticalCropPosition, \* useState
    fontSizePercent,      \* useState
    selectedStats,        \* useState of ImageEditor
    selectorStats,        \* useState of StatsSelector
    statsTimeouts,        \* the setTimeout callbacks of handleStatToggle, oldest first
    statsPosition,        \* useState
    position,             \* useState: the preset last chosen
    canvas,               \* the size of the canvas element
    timer,                \* the debounce timer of the render effect is set
    painted,              \* the overlay box last painted on the canvas
    pointer,              \* the last mouse event on the canvas: its kind and its place
    backgroundColor,      \* useState: the rgba() fill of the box, alpha in tenths
    textColor,            \* useState
    error,                \* useState of ImageEditor: the message below the file input
    drawn,                \* the image that drawImage last put on the canvas
    isLoggedIn,           \* useState of page.tsx
    selector,             \* the useState of ActivitySelector
    listFetches,          \* the pages whose fetch by ActivitySelector is in flight, oldest first
    detail                \* the detail fetches in flight, and the activity clicked last

paceVars == <<speedIn, paceOut>>

cropVars == <<cropIn, cropOut>>

wrapVars == <<wrapIn, wrapOut>>

fontVars == <<fontIn, fontOut>>

widthVars == <<widthIn, widthOut>>

routeVars == <<request, cookies>>

lookVars == <<backgroundColor, textColor>>

uploadVars == <<error, drawn>>

pageVars == <<isLoggedIn, selector, listFetches, detail>>

pureVars == <<paceVars, cropVars, wrapVars, fontVars, widthVars, routeVars>>

editorVars == <<activity, selectedImage, imageRef, loading, aspectRatio,
                verticalCropPosition, fontSizePercent, selectedStats, selectorStats,
                statsTimeouts, statsPosition, position, canvas, timer, painted,
                pointer, backgroundColor, textColor, error, drawn>>

vars == <<pureVars, editorVars, pageVars>>

(***************************************************************************)
(* Bounds of the model.                                                    *)
(***************************************************************************)
\* largest speed handed to formatPace, in cm/s
MaxSpeed == 400

\* largest width and height of a source bitmap handed to the crop computation
MaxImg == 8

\* most words of a title handed to the word wrap, and the longest word
MaxWords == 3

MaxWordLen == 3

\* widest box handed to the word wrap
MaxWrapWidth == 12

\* tallest canvas handed to the font sizing
MaxCanvasHeight == 1000

\* most setTimeout callbacks of the stats selector that are pending at once
MaxTimeouts == 1

\* the requests that the API routes serve one after the other
MaxRequests == 3

\* the largest distance between the stored width and the resolved one
MaxWidthDelta == 120

(***************************************************************************)
(* Numeric helpers.                                                        *)
(***************************************************************************)
Max(a, b) == IF a >= b THEN a ELSE b

Min(a, b) == IF a <= b THEN a ELSE b

\* Math.floor(n / d) for d > 0
Floor(n, d) == n \div d

\* Math.round(n / d) for d > 0: the nearest integer, halves go up
Round(n, d) == (2 * n + d) \div (2 * d)

(***************************************************************************)
(* Strings are sequences of one-character strings.                        *)
(***************************************************************************)
DigitChar(d) == <<"0", "1", "2", "3", "4", "5", "6", "7", "8", "9">>[d + 1]

RECURSIVE NumToString(_)
\* Number.prototype.toString of a natural number
NumToString(n) ==
    IF n < 10 THEN <<DigitChar(n)>>
    ELSE NumToString(n \div 10) \o <<DigitChar(n % 10)>>

RECURSIVE padStart(_, _, _)
\* String.prototype.padStart(targetLength, padString) for a one-character pad
padStart(s, targetLength, pad) ==
    IF Len(s) >= targetLength THEN s
    ELSE padStart(<<pad>> \o s, targetLength, pad)

(***************************************************************************)
(* Fractions <<n, d>> with d > 0, kept in lowest terms.                   *)
(***************************************************************************)
RECURSIVE GCD(_, _)
GCD(a, b) == IF b = 0 THEN a ELSE GCD(b, a % b)

Abs(a) == IF a < 0 THEN 0 - a ELSE a

Frac(n, d) ==
    LET g == GCD(Abs(n), d) IN
    IF n = 0 THEN <<0, 1>> ELSE <<n \div g, d \div g>>

FInt(n) == <<n, 1>>

FMul(a, b) == Frac(a[1] * b[1], a[2] * b[2])

\* a / b for b > 0
FDiv(a, b) == Frac(a[1] * b[2], a[2] * b[1])

FSub(a, b) == Frac(a[1] * b[2] - b[1] * a[2], a[2] * b[2])

FAdd(a, b) == Frac(a[1] * b[2] + b[1] * a[2], a[2] * b[2])

FLe(a, b) == a[1] * b[2] <= b[1] * a[2]

FMax(a, b) == IF FLe(b, a) THEN a ELSE b

FMin(a, b) == IF FLe(a, b) THEN a ELSE b

(***************************************************************************)
(* The crop computation of renderCanvas (ImageEditor.tsx, 148-188).       *)
(***************************************************************************)
\* the ratios offered by the aspect ratio buttons
AspectRatios == {"original", "9:16", "16:9", "3:4", "4:3", "1:1"}

\* aspectRatio.split(':').map(Number)
ratioParts(ratio) ==
    CASE ratio = "9:16" -> <<9, 16>>
      [] ratio = "16:9" -> <<16, 9>>
      [] ratio = "3:4"  -> <<3, 4>>
      [] ratio = "4:3"  -> <<4, 3>>
      [] ratio = "1:1"  -> <<1, 1>>

\* a scale that contains the canvas in the image, not one that covers it
coverScale_contain(cw, ch, iw, ih) == FMin(FDiv(cw, FInt(iw)), FDiv(ch, FInt(ih)))

\* const scale = Math.max(cw / iw, ch / ih)
coverScale(cw, ch, iw, ih) == FMax(FDiv(cw, FInt(iw)), FDiv(ch, FInt(ih)))

\* The size given to the canvas and the source rectangle handed to drawImage.
\* The code does not read verticalCropPosition (vPos).
cropRect(iw, ih, ratio, vPos) ==
    IF ratio # "original" THEN
        LET targetRatio == ratioParts(ratio)
            chFromWidth == FDiv(FInt(iw), targetRatio)
            fullWidth   == FLe(chFromWidth, FInt(ih))
            cw          == IF fullWidth THEN FInt(iw) ELSE FMul(FInt(ih), targetRatio)
            ch          == IF fullWidth THEN chFromWidth ELSE FInt(ih)
            scale       == coverScale(cw, ch, iw, ih)
            srcWidth    == FDiv(cw, scale)
            srcHeight   == FDiv(ch, scale)
        IN  [cw |-> cw, ch |-> ch,
             srcX |-> FDiv(FSub(FInt(iw), srcWidth), FInt(2)),
             srcY |-> FDiv(FSub(FInt(ih), srcHeight), FInt(2)),
             srcWidth |-> srcWidth, srcHeight |-> srcHeight]
    ELSE
        [cw |-> FInt(iw), ch |-> FInt(ih),
         srcX |-> FInt(0), srcY |-> FInt(0),
         srcWidth |-> FInt(iw), srcHeight |-> FInt(ih)]

(***************************************************************************)
(* formatPace (src/app/lib/strava.ts).  A speed is [kind |-> "undefined"] *)
(* or [kind |-> "number", v |-> n] with n in cm/s, so that                *)
(* speedInMetersPerSecond = n / 100 and                                    *)
(* paceInMinPerKm = 1000 / (speedInMetersPerSecond * 60) = 100000/(60*n). *)
(***************************************************************************)
UndefinedSpeed == [kind |-> "undefined"]

NumberSpeed(n) == [kind |-> "number", v |-> n]

\* const minutes = Math.floor(paceInMinPerKm)
paceMinutes(n) == Floor(100000, 60 * n)

\* const seconds = Math.round((paceInMinPerKm - minutes) * 60)
paceSeconds(n) == Round(100000 - 60 * n * paceMinutes(n), n)

formatPace(speed) ==
    IF speed.kind = "undefined" \/ speed.v = 0 THEN <<"-">>
    ELSE NumToString(paceMinutes(speed.v)) \o <<":">>
         \o padStart(NumToString(paceSeconds(speed.v)), 2, "0")
         \o <<"/", "k", "m">>

(***************************************************************************)
(* Overlay geometry (ImageEditor.tsx).  renderCanvas (190-204),           *)
(* handlePositionChange (561-575), startDragging (632-645) and dragStats  *)
(* (689-702) each compute the same font size, padding, line height and    *)
(* header height from canvas.height and fontSizePercent.                  *)
(***************************************************************************)
PADDING == 20

baseLineHeight == 10

baseHeaderExtra == 14

\* Math.floor in the place of Math.round
baseSizeOf_floor(canvasHeight, pct) == Floor(canvasHeight * pct, 100)

\* Math.round(canvas.height * (fontSizePercent / 100))
baseSizeOf(canvasHeight, pct) == Round(canvasHeight * pct, 100)

\* Math.round(600 * (fontSizePercent / 100))
minFontSizeOf(pct) == Round(600 * pct, 100)

\* Math.max(minFontSize, baseSize)
fontSizeOf(canvasHeight, pct) ==
    Max(minFontSizeOf(pct), baseSizeOf(canvasHeight, pct))

\* Math.round(base * paddingScale) with paddingScale = fontSize / minFontSize
scaled(base, canvasHeight, pct) ==
    Round(base * fontSizeOf(canvasHeight, pct), minFontSizeOf(pct))

paddingOf(canvasHeight, pct) == scaled(PADDING, canvasHeight, pct)

lineHeightOf(canvasHeight, pct) ==
    fontSizeOf(canvasHeight, pct)
        + scaled(baseLineHeight, canvasHeight, pct)

headerHeightOf(canvasHeight, pct) ==
    fontSizeOf(canvasHeight, pct)
        + scaled(baseHeaderExtra, canvasHeight, pct)

(***************************************************************************)
(* Text.  A text is known by its number of characters; ctx.measureText    *)
(* gives half the font size per character.  An activity name is the       *)
(* sequence of the lengths of activity.name.split(' '), so a 0 is the     *)
(* empty word between two adjacent spaces.                                 *)
(***************************************************************************)
measureText(chars, fontPx) == (chars * fontPx) \div 2

RECURSIVE SumSeq(_)
SumSeq(s) == IF s = <<>> THEN 0 ELSE Head(s) + SumSeq(Tail(s))

\* the number of characters of words joined by single spaces
lineChars(line) == IF line = <<>> THEN 0 ELSE SumSeq(line) + Len(line) - 1

Includes(seq, e) == \E i \in 1..Len(seq) : seq[i] = e

RECURSIVE Filter(_, _)
\* Array.prototype.filter, keeping the elements outside drop
Filter(seq, drop) ==
    IF seq = <<>> THEN <<>>
    ELSE IF Head(seq) \in drop THEN Filter(Tail(seq), drop)
         ELSE <<Head(seq)>> \o Filter(Tail(seq), drop)

\* the number of characters of getStatLabel(key)
labelChars(key) ==
    CASE key = "start_date"           -> 5
      [] key = "distance"             -> 9
      [] key = "moving_time"          -> 12
      [] key = "elapsed_time"         -> 11
      [] key = "average_speed"        -> 10
      [] key = "max_speed"            -> 10
      [] key = "average_pace"         -> 9
      [] key = "max_pace"             -> 9
      [] key = "total_elevation_gain" -> 10
      [] key = "average_heartrate"    -> 7
      [] key = "max_heartrate"        -> 7
      [] key = "suffer_score"         -> 13
      [] key = "calories"             -> 9
      [] key = "type"                 -> 9
      [] OTHER                        -> 4

OptionalKeys == {"average_heartrate", "max_heartrate", "calories", "suffer_score"}

\* the number of characters of getStatValue(key): an optional field that the
\* activity lacks gives the empty string
valueChars(act, key) ==
    IF key \in OptionalKeys /\ key \notin act.has THEN 0
    ELSE CASE key = "start_date"        -> 14
           [] key = "average_heartrate" -> 7
           [] key = "max_heartrate"     -> 7
           [] key = "name"              -> 0
           [] OTHER                     -> act.valueChars

\* `${label}: ${value}`
statTextChars(act, key) == labelChars(key) + 2 + valueChars(act, key)

RECURSIVE MaxStatWidth(_, _, _, _)
\* selectedStats.filter(stat => stat !== 'name').forEach(...): the widest
\* stat text plus padding * 2, folded into maxTextWidth
MaxStatWidth(act, stats, fontSize, padding) ==
    IF stats = <<>> THEN 0
    ELSE Max(measureText(statTextChars(act, Head(stats)), fontSize) + padding * 2,
             MaxStatWidth(act, Tail(stats), fontSize, padding))

\* maxTextWidth as it stands after line 277
maxTextWidthOf(act, stats, canvasWidth, canvasHeight, pct) ==
    LET fontSize == fontSizeOf(canvasHeight, pct)
        padding  == paddingOf(canvasHeight, pct)
        titleWidth == IF Includes(stats, "name")
                      THEN measureText(lineChars(act.name), fontSize + 4) + padding * 2
                      ELSE 0
        widest == Max(titleWidth,
                      MaxStatWidth(act, Filter(stats, {"name"}), fontSize, padding))
        maxAllowedWidth == canvasWidth - padding * 2
    IN  Min(widest + PADDING * 2, maxAllowedWidth)

(***************************************************************************)
(* Title word wrap.  A line is the sequence of the words on it; the empty *)
(* string is <<>>.  Widths are compared doubled (limit2 is twice the      *)
(* available width) because the painting pass subtracts padding * 2.5.    *)
(***************************************************************************)
\* const testLine = line + (line ? ' ' : '') + words[i]
testLineOf(line, word) ==
    IF lineChars(line) = 0 THEN (IF word = 0 THEN <<>> ELSE <<word>>)
    ELSE Append(line, word)

\* a test of the line as it stands, without the next word
wrapBreaks_line(line, word, i, fontPx, limit2) ==
    2 * measureText(lineChars(line), fontPx) > limit2 /\ i > 0

\* metrics.width > availableWidth && i > 0
wrapBreaks(line, word, i, fontPx, limit2) ==
    2 * measureText(lineChars(testLineOf(line, word)), fontPx) > limit2 /\ i > 0

RECURSIVE wrapLoop(_, _, _, _, _, _)
\* the for loop over words and the push of the last line; i counts from 0
wrapLoop(words, i, line, lines, fontPx, limit2) ==
    IF i >= Len(words)
    THEN (IF lineChars(line) > 0 THEN Append(lines, line) ELSE lines)
    ELSE IF wrapBreaks(line, words[i + 1], i, fontPx, limit2)
         THEN wrapLoop(words, i + 1, testLineOf(<<>>, words[i + 1]),
                       Append(lines, line), fontPx, limit2)
         ELSE wrapLoop(words, i + 1, testLineOf(line, words[i + 1]),
                       lines, fontPx, limit2)

\* the line-count pass: tempLines for availableWidth = maxTextWidth - padding * 2
tempLinesOf(words, fontPx, maxTextWidth, padding) ==
    wrapLoop(words, 0, <<>>, <<>>, fontPx, 2 * (maxTextWidth - padding * 2))

\* the painting pass: lines for maxWidth = statsPosition.width - padding * 2.5
paintLinesOf(words, fontPx, width, padding) ==
    wrapLoop(words, 0, <<>>, <<>>, fontPx, 2 * width - padding * 5)

\* let titleLines = 1; if (selectedStats.includes('name')) titleLines = tempLines.length
titleLinesOf(act, stats, maxTextWidth, canvasHeight, pct) ==
    IF Includes(stats, "name")
    THEN Len(tempLinesOf(act.name, fontSizeOf(canvasHeight, pct) + 4,
                         maxTextWidth, paddingOf(canvasHeight, pct)))
    ELSE 1

\* selectedStats.length - (selectedStats.includes('name') ? 1 : 0)
countedRows(stats) == Len(stats) - (IF Includes(stats, "name") THEN 1 ELSE 0)

\* padding * 2 + headerHeight + (non-title stats) * lineHeight + titleLines * lineHeight
overlayHeightOf(stats, titleLines, canvasHeight, pct) ==
    paddingOf(canvasHeight, pct) * 2
      + headerHeightOf(canvasHeight, pct)
      + countedRows(stats) * lineHeightOf(canvasHeight, pct)
      + titleLines * lineHeightOf(canvasHeight, pct)

(***************************************************************************)
(* The editor (ImageEditor.tsx) and its stats selector                    *)
(* (StatsSelector.tsx).                                                    *)
(*                                                                         *)
(* activity, selectedImage and imageRef hold an identifier, 0 for null.   *)
(* statsPosition.x, .y, .dragOffsetX and .dragOffsetY and the painted     *)
(* rectangle are kept in half pixels (twice the pixel value), because the *)
(* centred presets divide a pixel length by two; statsPosition.width and  *)
(* the canvas size are pixels.                                             *)
(***************************************************************************)
\* the activities the user can pick; name is the title's word lengths
\* ("Morning Run", and "Sunday long run with the club around the reservoir loop")
ActivityOf(id) ==
    CASE id = 1 -> [name |-> <<7, 3>>, type |-> "run",
                    has |-> {"average_heartrate", "calories"}, valueChars |-> 6]
      [] id = 2 -> [name |-> <<6, 4, 3, 4, 3, 4, 6, 3, 9, 4>>, type |-> "workout",
                    has |-> {}, valueChars |-> 6]

ActivityIds == {1, 2}

\* the bitmaps the user can upload: img.width and img.height
ImageOf(id) ==
    CASE id = 1 -> [width |-> 800, height |-> 800]
      [] id = 2 -> [width |-> 600, height |-> 800]

ImageIds == {1}

\* the aspect ratio buttons that the model presses in the editor
EditorRatios == {"original", "16:9"}

\* the values of the Font Size slider (1..7) that the model tries
FontPercents == {3, 7}

\* the pointer coordinates, relative to the canvas, that the model tries
PointerXs == {30, 35}

PointerYs == {30, 35, 320, 700}

\* the activity and the pointer coordinates tried with the preset buttons
PresetActivities == {1}

PresetPointerXs == {30}

PresetDownYs == {30}

PresetPointerYs == {30, 300}

Positions == {"top-center", "top-left", "top-right", "bottom-center",
              "bottom-left", "bottom-right", "center"}

\* the check boxes of the selector that the model ticks
ToggleKeys == {"name", "type"}

\* the change of width above which renderCanvas stores a new width
WidthThreshold == 100

\* useState of selectedStats, in ImageEditor and in StatsSelector alike
InitialStats == <<"name", "start_date", "distance", "moving_time", "average_pace">>

\* the switch on activity.type.toLowerCase() of the default-stats effect
defaultStatsOf(type) ==
    CASE type \in {"run", "virtualrun"} ->
            <<"name", "start_date", "distance", "moving_time", "average_pace",
              "average_heartrate", "calories">>
      [] type \in {"trailrun", "walk", "hike"} ->
            <<"name", "start_date", "distance", "moving_time", "average_pace",
              "average_heartrate", "total_elevation_gain", "calories">>
      [] type \in {"ride", "gravelride", "mountainbikeride", "virtualride",
                   "ebikeride", "emountainbikeride"} ->
            <<"name", "start_date", "distance", "moving_time", "average_speed",
              "average_heartrate", "total_elevation_gain", "calories">>
      [] OTHER ->
            <<"name", "start_date", "moving_time", "average_heartrate", "calories">>

\* availableStats of StatsSelector: the keys that have a check box
selectorKeys(act) ==
    {"name", "start_date", "distance", "moving_time", "elapsed_time", "average_pace",
     "max_pace", "average_speed", "max_speed", "total_elevation_gain", "type"}
        \cup act.has

\* canvas.width = cw; canvas.height = ch: the canvas keeps whole pixels
canvasSizeOf(img, ratio) ==
    LET c == cropRect(img.width, img.height, ratio, 50) IN
    [width |-> Floor(c.cw[1], c.cw[2]), height |-> Floor(c.ch[1], c.ch[2])]

\* const finalWidth = Math.min(statsPosition.width, canvas.width - (statsPosition.x + padding))
\* in half pixels
finalWidthOf(pos, canvasWidth, padding) ==
    Min(2 * pos.width, 2 * canvasWidth - (pos.x + 2 * padding))

\* minHeight of handlePositionChange and of startDragging
minHeightOf(nStats, canvasHeight, pct) ==
    paddingOf(canvasHeight, pct) * 2
      + headerHeightOf(canvasHeight, pct)
      + nStats * lineHeightOf(canvasHeight, pct)

\* minHeight of dragStats
dragMinHeightOf(nStats, canvasHeight, pct) ==
    paddingOf(canvasHeight, pct)
      + headerHeightOf(canvasHeight, pct)
      + nStats * lineHeightOf(canvasHeight, pct)

\* Math.min(statsPosition.width, canvas.width - padding * 2)
actualStatsWidthOf(width, canvasWidth, padding) == Min(width, canvasWidth - padding * 2)

\* the bottom row without the padding below the box
presetXY_flush(newPosition, cnv, width, nStats, pct) ==
    LET padding   == paddingOf(cnv.height, pct)
        minHeight == minHeightOf(nStats, cnv.height, pct)
        actualStatsWidth == actualStatsWidthOf(width, cnv.width, padding)
        left    == 2 * padding
        centerX == Max(2 * padding, cnv.width - actualStatsWidth)
        right   == 2 * Max(padding, cnv.width - actualStatsWidth - padding)
        top     == 2 * padding
        centerY == Max(2 * padding, cnv.height - minHeight)
        bottom  == 2 * Max(padding, cnv.height - minHeight)
    IN  CASE newPosition = "top-center"    -> [x |-> centerX, y |-> top]
          [] newPosition = "top-left"      -> [x |-> left,    y |-> top]
          [] newPosition = "top-right"     -> [x |-> right,   y |-> top]
          [] newPosition = "center"        -> [x |-> centerX, y |-> centerY]
          [] newPosition = "bottom-left"   -> [x |-> left,    y |-> bottom]
          [] newPosition = "bottom-right"  -> [x |-> right,   y |-> bottom]
          [] newPosition = "bottom-center" -> [x |-> centerX, y |-> bottom]

\* the switch of handlePositionChange: the new x and y, in half pixels
presetXY(newPosition, cnv, width, nStats, pct) ==
    LET padding   == paddingOf(cnv.height, pct)
        minHeight == minHeightOf(nStats, cnv.height, pct)
        actualStatsWidth == actualStatsWidthOf(width, cnv.width, padding)
        left    == 2 * padding
        centerX == Max(2 * padding, cnv.width - actualStatsWidth)
        right   == 2 * Max(padding, cnv.width - actualStatsWidth - padding)
        top     == 2 * padding
        centerY == Max(2 * padding, cnv.height - minHeight)
        bottom  == 2 * Max(padding, cnv.height - minHeight - padding)
    IN  CASE newPosition = "top-center"    -> [x |-> centerX, y |-> top]
          [] newPosition = "top-left"      -> [x |-> left,    y |-> top]
          [] newPosition = "top-right"     -> [x |-> right,   y |-> top]
          [] newPosition = "center"        -> [x |-> centerX, y |-> centerY]
          [] newPosition = "bottom-left"   -> [x |-> left,    y |-> bottom]
          [] newPosition = "bottom-right"  -> [x |-> right,   y |-> bottom]
          [] newPosition = "bottom-center" -> [x |-> centerX, y |-> bottom]

\* the test of startDragging: is the pointer inside the stats box
hitsBox(px, py, pos, nStats, canvasHeight, pct) ==
    /\ 2 * px >= pos.x
    /\ 2 * px <= pos.x + 2 * pos.width
    /\ 2 * py >= pos.y
    /\ 2 * py <= pos.y + 2 * minHeightOf(nStats, canvasHeight, pct)

\* newX and newY of dragStats, in half pixels
dragXY(px, py, pos, cnv, nStats, pct) ==
    LET padding   == paddingOf(cnv.height, pct)
        minHeight == dragMinHeightOf(nStats, cnv.height, pct)
        actualStatsWidth == actualStatsWidthOf(pos.width, cnv.width, padding)
        maxX == Max(0, cnv.width - actualStatsWidth - padding)
        maxY == Max(0, cnv.height - minHeight - padding)
    IN  [x |-> Max(2 * padding, Min(2 * maxX, 2 * px - pos.dragOffsetX)),
         y |-> Max(2 * padding, Min(2 * maxY, 2 * py - pos.dragOffsetY))]

\* handleStatToggle: newSelected
toggled(stats, statKey) ==
    IF Includes(stats, statKey) THEN Filter(stats, {statKey})
    ELSE Append(stats, statKey)

\* the guard of the render effect: a timer is set when it passes
schedules(act, img) == act # 0 /\ img # 0

\* the keys that renderCanvas may paint, as it lists them: the optional ones last
StatCatalog ==
    <<"name", "type", "start_date", "distance", "moving_time", "elapsed_time",
      "average_pace", "max_pace", "average_speed", "max_speed", "total_elevation_gain",
      "average_heartrate", "max_heartrate", "calories", "suffer_score">>

\* the keys of seq that are in the set keep, in the order of seq
Keep(seq, keep) == SelectSeq(seq, LAMBDA k : k \in keep)

\* availableStats of renderCanvas: an optional key is pushed only if the
\* activity has the field
availableStats(act) ==
    SelectSeq(StatCatalog, LAMBDA k : k \notin OptionalKeys \/ k \in act.has)

\* orderedStats.filter(stat => selectedStats.includes(stat)).filter(stat => stat !== 'name')
orderedSelectedStats(act, stats) ==
    SelectSeq(SelectSeq(availableStats(act), LAMBDA k : Includes(stats, k)),
              LAMBDA k : k # "name")

\* what renderCanvas paints for the overlay box, in half pixels, with the
\* number of title lines counted for the height and the number painted, the
\* number of rows counted for the height, and the keys of the rows painted
\* below the title, top to bottom
paintOf(act, stats, pos, cnv, pct) ==
    LET fontSize     == fontSizeOf(cnv.height, pct)
        padding      == paddingOf(cnv.height, pct)
        maxTextWidth == maxTextWidthOf(act, stats, cnv.width, cnv.height, pct)
        titleLines   == titleLinesOf(act, stats, maxTextWidth, cnv.height, pct)
    IN  [x |-> pos.x, y |-> pos.y,
         w |-> finalWidthOf(pos, cnv.width, padding),
         h |-> 2 * overlayHeightOf(stats, titleLines, cnv.height, pct),
         titleLines |-> titleLines,
         lines |-> IF Includes(stats, "name")
                   THEN Len(paintLinesOf(act.name, fontSize + 4, pos.width, padding))
                   ELSE 0,
         counted |-> countedRows(stats),
         rows |-> orderedSelectedStats(act, stats)]

\* the canvas before anything is painted on it, and after clearRect
Blank == [x |-> 0, y |-> 0, w |-> 0, h |-> 0, titleLines |-> 0, lines |-> 0,
          counted |-> 0, rows |-> <<>>]

(***************************************************************************)
(* formatPace as a state machine: getActivity and getActivities map each  *)
(* fetched activity through it.                                            *)
(***************************************************************************)
Unset == <<"unset">>

Speeds == {UndefinedSpeed} \cup {NumberSpeed(n) : n \in 0..MaxSpeed}

PaceIdle ==
    /\ speedIn = UndefinedSpeed
    /\ paceOut = Unset

PaceInit ==
    /\ speedIn \in Speeds
    /\ paceOut = Unset

\* average_pace: formatPace(activity.average_speed)
FormatPace ==
    /\ paceOut = Unset
    /\ paceOut' = formatPace(speedIn)
    /\ UNCHANGED <<speedIn, cropVars, wrapVars, fontVars, widthVars, routeVars, editorVars, pageVars>>

\* the next fetched activity arrives with another speed
NextSpeed ==
    /\ paceOut # Unset
    /\ speedIn' \in Speeds
    /\ paceOut' = Unset
    /\ UNCHANGED <<cropVars, wrapVars, fontVars, widthVars, routeVars, editorVars, pageVars>>

PaceNext == FormatPace \/ NextSpeed

(***************************************************************************)
(* The crop computation as a state machine over every source size up to   *)
(* MaxImg.                                                                 *)
(***************************************************************************)
\* the positions of the Vertical Position slider that the model tries
CropPositions == {0, 50, 100}

CropInputs ==
    [iw : 1..MaxImg, ih : 1..MaxImg, aspectRatio : AspectRatios,
     verticalCropPosition : CropPositions]

NoCrop == [cw |-> FInt(0), ch |-> FInt(0), srcX |-> FInt(0), srcY |-> FInt(0),
           srcWidth |-> FInt(0), srcHeight |-> FInt(0)]

CropIdle ==
    /\ cropIn = [iw |-> 1, ih |-> 1, aspectRatio |-> "original",
                 verticalCropPosition |-> 50]
    /\ cropOut = NoCrop

CropInit ==
    /\ cropIn \in CropInputs
    /\ cropOut = NoCrop

\* renderCanvas sizes the canvas and draws the image
Crop ==
    /\ cropOut = NoCrop
    /\ cropOut' = cropRect(cropIn.iw, cropIn.ih, cropIn.aspectRatio,
                           cropIn.verticalCropPosition)
    /\ UNCHANGED <<cropIn, paceVars, wrapVars, fontVars, widthVars, routeVars, editorVars, pageVars>>

\* the user picks another ratio or moves the Vertical Position slider
CropChange ==
    /\ cropOut # NoCrop
    /\ \E r \in AspectRatios, v \in CropPositions :
          cropIn' = [cropIn EXCEPT !.aspectRatio = r, !.verticalCropPosition = v]
    /\ cropOut' = NoCrop
    /\ UNCHANGED <<paceVars, wrapVars, fontVars, widthVars, routeVars, editorVars, pageVars>>

CropNext == Crop \/ CropChange

(***************************************************************************)
(* The title word wrap as a state machine over every title of up to       *)
(* MaxWords words.  The font is 2px, so that a character measures 1.      *)
(***************************************************************************)
RECURSIVE WordSeqs(_)
WordSeqs(n) ==
    IF n = 0 THEN {<<>>}
    ELSE LET shorter == WordSeqs(n - 1) IN
         shorter \cup {Append(s, w) : s \in {t \in shorter : Len(t) = n - 1},
                                      w \in 0..MaxWordLen}

WrapInputs ==
    [words : WordSeqs(MaxWords) \ {<<>>}, width : 0..MaxWrapWidth, padding : {0, 2}]

NoWrap == [temp |-> <<>>, paint |-> <<>>, done |-> FALSE]

WrapIdle ==
    /\ wrapIn = [words |-> <<0>>, width |-> 0, padding |-> 0]
    /\ wrapOut = NoWrap

WrapInit ==
    /\ wrapIn \in WrapInputs
    /\ wrapOut = NoWrap

\* renderCanvas wraps the title twice: to count the lines, and to paint them
WrapTitle ==
    /\ ~wrapOut.done
    /\ wrapOut' = [temp  |-> tempLinesOf(wrapIn.words, 2, wrapIn.width, wrapIn.padding),
                   paint |-> paintLinesOf(wrapIn.words, 2, wrapIn.width, wrapIn.padding),
                   done  |-> TRUE]
    /\ UNCHANGED <<wrapIn, paceVars, cropVars, fontVars, widthVars, routeVars, editorVars, pageVars>>

\* the box gets another width
WrapResize ==
    /\ wrapOut.done
    /\ \E w \in 0..MaxWrapWidth : wrapIn' = [wrapIn EXCEPT !.width = w]
    /\ wrapOut' = NoWrap
    /\ UNCHANGED <<paceVars, cropVars, fontVars, widthVars, routeVars, editorVars, pageVars>>

WrapNext == WrapTitle \/ WrapResize

(***************************************************************************)
(* The font sizing as a state machine over every canvas height up to      *)
(* MaxCanvasHeight and every position of the Font Size slider.            *)
(***************************************************************************)
FontInputs == [canvasHeight : 1..MaxCanvasHeight, fontSizePercent : 1..7]

FontIdle ==
    /\ fontIn = [canvasHeight |-> 1, fontSizePercent |-> 1]
    /\ fontOut = 0

FontInit ==
    /\ fontIn \in FontInputs
    /\ fontOut = 0

\* renderCanvas computes fontSize
SizeFont ==
    /\ fontOut = 0
    /\ fontOut' = fontSizeOf(fontIn.canvasHeight, fontIn.fontSizePercent)
    /\ UNCHANGED <<fontIn, paceVars, cropVars, wrapVars, widthVars, routeVars, editorVars, pageVars>>

\* the Font Size slider moves
FontSlide ==
    /\ fontOut # 0
    /\ \E f \in 1..7 : fontIn' = [fontIn EXCEPT !.fontSizePercent = f]
    /\ fontOut' = 0
    /\ UNCHANGED <<paceVars, cropVars, wrapVars, widthVars, routeVars, editorVars, pageVars>>

FontNext == SizeFont \/ FontSlide

(***************************************************************************)
(* The API routes GET /api/strava/activities and GET /api/strava/          *)
(* activities/[id]: one request at a time, a step for each upstream call.  *)
(***************************************************************************)
Routes == {"activities", "activity"}

\* what an upstream call can come to: response.ok with a body that parses, a
\* 401, another status that is not ok, or a fetch that rejects
FetchOutcomes == {"ok", "401", "500", "rejects"}

\* refreshToken: as above, or the credentials are missing from the environment
RefreshOutcomes == {"ok", "401", "rejects", "no credentials"}

\* hasAccessToken and hasRefreshToken: the cookies that the request came with;
\* built: the token pair in the cookies of the response that the refresh
\* branch builds; setCookie: the token pair in the cookies of the response
\* that the route returns
NoRequest ==
    [route |-> "none", pc |-> "idle", first |-> "none", refresh |-> "none",
     retry |-> "none", fetches |-> 0, refreshes |-> 0, status |-> 0, served |-> 0,
     hasAccessToken |-> FALSE, hasRefreshToken |-> FALSE,
     built |-> "none", setCookie |-> "none"]

\* no cookie is set before the first login; a cookie is known by the token
\* pair that it holds: the pair of the login, or the pair of a refresh
NoCookies == [access |-> "none", refresh |-> "none"]

\* the browser keeps the cookies that a response sets
storeCookies(jar, setCookie) ==
    IF setCookie = "none" THEN jar ELSE [access |-> setCookie, refresh |-> setCookie]

RouteIdle == request = NoRequest /\ cookies = NoCookies

\* GET up to the first await: the id of the detail route must be a number,
\* and both cookies must be there
GET(route, idIsNumber, hasAccessToken, hasRefreshToken) ==
    /\ request.pc \in {"idle", "done"}
    /\ request.served < MaxRequests
    /\ request' =
          LET fresh == [NoRequest EXCEPT !.route = route, !.served = request.served + 1,
                                         !.hasAccessToken = hasAccessToken,
                                         !.hasRefreshToken = hasRefreshToken]
          IN  IF route = "activity" /\ ~idIsNumber
                THEN [fresh EXCEPT !.pc = "done", !.status = 400]
              ELSE IF ~hasAccessToken \/ ~hasRefreshToken
                THEN [fresh EXCEPT !.pc = "done", !.status = 401]
              ELSE [fresh EXCEPT !.pc = "fetch"]
    /\ UNCHANGED <<cookies, paceVars, cropVars, wrapVars, fontVars, widthVars, editorVars, pageVars>>

\* await getActivities(accessToken, ...) or getActivity(accessToken, ...)
firstFetch(outcome) ==
    /\ request.pc = "fetch"
    /\ request' = IF outcome = "ok"
                    THEN [request EXCEPT !.pc = "done", !.first = outcome,
                                         !.fetches = @ + 1, !.status = 200]
                    ELSE [request EXCEPT !.pc = "refresh", !.first = outcome,
                                         !.fetches = @ + 1]
    /\ UNCHANGED <<cookies, paceVars, cropVars, wrapVars, fontVars, widthVars, editorVars, pageVars>>

\* catch: await refreshToken(refreshTokenCookie); a throw leaves for the outer catch
refreshToken(outcome) ==
    /\ request.pc = "refresh"
    /\ request' = IF outcome = "ok"
                    THEN [request EXCEPT !.pc = "retry", !.refresh = outcome,
                                         !.refreshes = @ + 1, !.built = "refreshed"]
                    ELSE [request EXCEPT !.pc = "done", !.refresh = outcome,
                                         !.refreshes = @ + 1, !.status = 500]
    /\ UNCHANGED <<cookies, paceVars, cropVars, wrapVars, fontVars, widthVars, editorVars, pageVars>>

\* the status that the route returns after the fetch with the new token
retryStatus(outcome) == IF outcome = "ok" THEN 200 ELSE 500

\* a retry that, when it fails, refreshes the token again
retryFetch_again(outcome) ==
    /\ request.pc = "retry"
    /\ request' = IF outcome = "ok"
                    THEN [request EXCEPT !.pc = "done", !.retry = outcome,
                                         !.fetches = @ + 1, !.status = 200]
                    ELSE [request EXCEPT !.pc = "refresh", !.retry = outcome,
                                         !.fetches = @ + 1]
    /\ UNCHANGED <<cookies, paceVars, cropVars, wrapVars, fontVars, widthVars, editorVars, pageVars>>

\* await getActivities(tokenData.access_token, ...) or getActivity(...); what
\* is returned is a new NextResponse.json, or the 500 of the outer catch, and
\* not the response on which the cookies were set
retryFetch(outcome) ==
    /\ request.pc = "retry"
    /\ request' = [request EXCEPT !.pc = "done", !.retry = outcome,
                                  !.fetches = @ + 1, !.status = retryStatus(outcome),
                                  !.setCookie = "none"]
    /\ cookies' = storeCookies(cookies, request'.setCookie)
    /\ UNCHANGED <<paceVars, cropVars, wrapVars, fontVars, widthVars, editorVars, pageVars>>

\* what exchangeToken can come to
ExchangeOutcomes == {"ok", "fails"}

\* GET /api/auth/callback: with a code that exchangeToken accepts, the redirect
\* sets both cookies, the access token to expire at expires_at and the
\* refresh token in 30 days
callback(hasError, hasCode, outcome) ==
    /\ request.pc \in {"idle", "done"}
    /\ cookies' = IF ~hasError /\ hasCode /\ outcome = "ok"
                    THEN storeCookies(cookies, "login")
                    ELSE cookies
    /\ UNCHANGED <<request, paceVars, cropVars, wrapVars, fontVars, widthVars, editorVars, pageVars>>

\* the time reaches expires_at: the browser drops the access token cookie
accessTokenExpires ==
    /\ cookies.access # "none"
    /\ cookies' = [cookies EXCEPT !.access = "none"]
    /\ UNCHANGED <<request, paceVars, cropVars, wrapVars, fontVars, widthVars, editorVars, pageVars>>

\* a request of the browser: it carries the cookies that the jar holds
browserGET(route, idIsNumber) ==
    GET(route, idIsNumber, cookies.access # "none", cookies.refresh # "none")

\* logins, the expiry of the access token cookie, and the browser's requests
SessionRouteNext ==
    \/ \E hasError, hasCode \in BOOLEAN, outcome \in ExchangeOutcomes :
          callback(hasError, hasCode, outcome)
    \/ accessTokenExpires
    \/ \E route \in Routes, idIsNumber \in BOOLEAN : browserGET(route, idIsNumber)
    \/ \E outcome \in FetchOutcomes : firstFetch(outcome)
    \/ \E outcome \in RefreshOutcomes : refreshToken(outcome)
    \/ \E outcome \in FetchOutcomes : retryFetch(outcome)

RouteNext ==
    \/ \E route \in Routes, idIsNumber, hasAccessToken, hasRefreshToken \in BOOLEAN :
          GET(route, idIsNumber, hasAccessToken, hasRefreshToken)
    \/ \E outcome \in FetchOutcomes : firstFetch(outcome)
    \/ \E outcome \in RefreshOutcomes : refreshToken(outcome)
    \/ \E outcome \in FetchOutcomes : retryFetch(outcome)

(***************************************************************************)
(* The page (page.tsx) and its activity list (ActivitySelector.tsx).      *)
(* An activity of the list is known by its identifier, a page of the list *)
(* by its number.                                                          *)
(***************************************************************************)
\* useState of ActivitySelector; null is 0 for an activity and "none" for error
SelectorInit ==
    [activities |-> <<>>, isLoading |-> FALSE, error |-> "none", page |-> 1,
     hasMore |-> TRUE, loadingActivity |-> 0, selectedActivity |-> 0]

NoDetail == [pending |-> <<>>, lastClicked |-> 0, failed |-> FALSE]

PageInit ==
    /\ isLoggedIn = FALSE
    /\ selector = SelectorInit
    /\ listFetches = <<>>
    /\ detail = NoDetail

\* the fetches of the list that can be in flight at once
MaxFetches == 2

\* the last page of the list that Load More asks for
MaxPage == 4

\* the length of the list from which the user no longer logs in again
MaxActivities == 4

\* data.activities of GET /api/strava/activities?page=n: three pages of one
\* activity each, and nothing after them
PageOf(n) ==
    CASE n = 1 -> <<1>>
      [] n = 2 -> <<2>>
      [] n = 3 -> <<3>>
      [] OTHER -> <<>>

\* what a fetch of the browser can come to: response.ok with a body, or not
ClientOutcomes == {"ok", "fails"}

\* seq without its i-th element
Without(seq, i) == SubSeq(seq, 1, i - 1) \o SubSeq(seq, i + 1, Len(seq))

NoPointer == [kind |-> "none", x |-> 0, y |-> 0]

EditorInit ==
    /\ activity = 0
    /\ selectedImage = 0
    /\ imageRef = 0
    /\ loading = {}
    /\ aspectRatio = "original"
    /\ verticalCropPosition = 50
    /\ fontSizePercent = 3
    /\ selectedStats = InitialStats
    /\ selectorStats = InitialStats
    /\ statsTimeouts = <<>>
    /\ statsPosition = [x |-> 40, y |-> 40, width |-> 800, isDragging |-> FALSE,
                        borderRadius |-> 50, dragOffsetX |-> 0, dragOffsetY |-> 0,
                        hasSetWidth |-> FALSE]
    /\ position = "top-left"
    /\ canvas = [width |-> 300, height |-> 150]
    /\ timer = FALSE
    /\ painted = Blank
    /\ pointer = NoPointer
    /\ backgroundColor = [rgb |-> <<0, 0, 0>>, alpha |-> 5]
    /\ textColor = "#ffffff"
    /\ error = "none"
    /\ drawn = 0

\* page.tsx handleActivitySelect passes a new activity; the default-stats
\* effect and the reset effect run, the selector is unmounted with the image
handleActivitySelect(a) ==
    /\ activity' = a
    /\ selectedStats' = defaultStatsOf(ActivityOf(a).type)
    /\ selectedImage' = 0
    /\ selectorStats' = InitialStats
    /\ painted' = Blank
    /\ timer' = FALSE
    /\ drawn' = 0
    /\ UNCHANGED <<imageRef, loading, aspectRatio, verticalCropPosition, fontSizePercent,
                   statsTimeouts, statsPosition, position, canvas, pointer, error>>
    /\ UNCHANGED <<pureVars, lookVars>>

\* an activity reaches the editor, whatever the list is doing
SelectActivity(a) == handleActivitySelect(a) /\ UNCHANGED pageVars

\* page.tsx handleLogin; the effect of ActivitySelector on [isLoggedIn, page]
\* starts fetchActivities for the page that the selector is on
handleLogin ==
    /\ ~isLoggedIn
    /\ Len(listFetches) < MaxFetches
    /\ Len(selector.activities) < MaxActivities
    /\ isLoggedIn' = TRUE
    /\ selector' = [selector EXCEPT !.isLoading = TRUE, !.error = "none"]
    /\ listFetches' = Append(listFetches, selector.page)
    /\ UNCHANGED <<detail, pureVars, editorVars>>

\* page.tsx handleLogout: setIsLoggedIn(false), setSelectedActivity(null); the
\* reset effect of the editor runs; the state of ActivitySelector stays
handleLogout ==
    /\ isLoggedIn
    /\ isLoggedIn' = FALSE
    /\ activity' = 0
    /\ selectedImage' = 0
    /\ selectorStats' = InitialStats
    /\ painted' = Blank
    /\ drawn' = 0
    /\ timer' = FALSE
    /\ UNCHANGED <<imageRef, loading, aspectRatio, verticalCropPosition, fontSizePercent,
                   selectedStats, statsTimeouts, statsPosition, position, canvas, pointer,
                   error>>
    /\ UNCHANGED <<pureVars, lookVars, selector, listFetches, detail>>

\* the Load More button: shown with hasMore and a list that is not empty,
\* disabled while loading; setPage(prevPage => prevPage + 1) and the effect
handleLoadMore ==
    /\ isLoggedIn
    /\ selector.hasMore
    /\ Len(selector.activities) > 0
    /\ ~selector.isLoading
    /\ selector.page < MaxPage
    /\ Len(listFetches) < MaxFetches
    /\ selector' = [selector EXCEPT !.page = @ + 1, !.isLoading = TRUE,
                                    !.error = "none"]
    /\ listFetches' = Append(listFetches, selector.page + 1)
    /\ UNCHANGED <<isLoggedIn, detail, pureVars, editorVars>>

\* fetchActivities after its await: the response for the page that the effect
\* asked for; page in the closure is that page
fetchActivities(i, outcome) ==
    /\ i \in 1..Len(listFetches)
    /\ LET page == listFetches[i]
           data == PageOf(page)
       IN  selector' =
              IF outcome # "ok"
                THEN [selector EXCEPT !.error = "Failed to fetch activities",
                                      !.isLoading = FALSE]
              ELSE IF Len(data) = 0
                THEN [selector EXCEPT !.hasMore = FALSE, !.isLoading = FALSE]
              ELSE [selector EXCEPT
                       !.activities = IF page = 1 THEN data ELSE @ \o data,
                       !.isLoading = FALSE]
    /\ listFetches' = Without(listFetches, i)
    /\ UNCHANGED <<isLoggedIn, detail, pureVars, editorVars>>

\* a click on an activity of the list: handleSelectActivity up to its await
handleSelectActivity(a) ==
    /\ isLoggedIn
    /\ Includes(selector.activities, a)
    /\ Len(detail.pending) < MaxFetches
    /\ selector' = [selector EXCEPT !.loadingActivity = a]
    /\ detail' = [detail EXCEPT !.pending = Append(@, a), !.lastClicked = a]
    /\ UNCHANGED <<isLoggedIn, listFetches, pureVars, editorVars>>

\* handleSelectActivity after its await: setSelectedActivity and onSelect, or
\* the catch; finally setLoadingActivity(null)
selectActivityReturns(i, outcome) ==
    /\ i \in 1..Len(detail.pending)
    /\ LET a == detail.pending[i] IN
       IF outcome = "ok"
       THEN /\ selector' = [selector EXCEPT !.selectedActivity = a,
                                             !.loadingActivity = 0]
            /\ detail' = [detail EXCEPT !.pending = Without(@, i)]
            /\ handleActivitySelect(a)
            /\ UNCHANGED <<isLoggedIn, listFetches>>
       ELSE /\ selector' = [selector EXCEPT
                                !.error = "Failed to fetch activity details",
                                !.loadingActivity = 0]
            /\ detail' = [detail EXCEPT !.pending = Without(@, i), !.failed = TRUE]
            /\ UNCHANGED <<isLoggedIn, listFetches, pureVars, editorVars>>

\* handleImageUpload, reader.onloadend with a data URL: the image starts loading
UploadImage(i) ==
    /\ activity # 0
    /\ selectedImage' = i
    /\ loading' = loading \cup {i}
    /\ timer' = IF selectedImage # i THEN TRUE ELSE timer
    /\ error' = "none"
    /\ UNCHANGED <<activity, imageRef, aspectRatio, verticalCropPosition, fontSizePercent,
                   selectedStats, selectorStats, statsTimeouts, statsPosition, position,
                   canvas, painted, pointer, drawn>>
    /\ UNCHANGED <<pureVars, lookVars, pageVars>>

\* the files that handleImageUpload turns down
BadFiles == {"not an image", "unreadable"}

\* an upload turned down that also takes the chosen image away
rejectUpload_clears(file) ==
    /\ activity # 0
    /\ file \in BadFiles
    /\ error' = IF file = "not an image" THEN "Please upload an image file"
                ELSE "Error processing image"
    /\ selectedImage' = 0
    /\ timer' = FALSE
    /\ UNCHANGED <<activity, imageRef, loading, aspectRatio,
                   verticalCropPosition, fontSizePercent, selectedStats, selectorStats,
                   statsTimeouts, statsPosition, position, canvas, painted,
                   pointer, drawn>>
    /\ UNCHANGED <<pureVars, lookVars, pageVars>>

\* handleImageUpload with a file whose type does not start with "image/", or
\* with a file that the reader cannot read: reader.onerror sets "Error reading
\* file" and reader.onloadend, fired next with a null result, sets the message
\* that stays
rejectUpload(file) ==
    /\ activity # 0
    /\ file \in BadFiles
    /\ error' = IF file = "not an image" THEN "Please upload an image file"
                ELSE "Error processing image"
    /\ UNCHANGED <<activity, selectedImage, imageRef, loading, aspectRatio,
                   verticalCropPosition, fontSizePercent, selectedStats, selectorStats,
                   statsTimeouts, statsPosition, position, canvas, timer, painted,
                   pointer, drawn>>
    /\ UNCHANGED <<pureVars, lookVars, pageVars>>

\* img.onload of handleImageUpload: only the ref is set
ImageLoaded(i) ==
    /\ i \in loading
    /\ imageRef' = i
    /\ loading' = loading \ {i}
    /\ UNCHANGED <<activity, selectedImage, aspectRatio, verticalCropPosition,
                   fontSizePercent, selectedStats, selectorStats, statsTimeouts,
                   statsPosition, position, canvas, timer, painted, pointer>>
    /\ UNCHANGED <<pureVars, lookVars, uploadVars, pageVars>>

\* the controls below are rendered only with an activity and a selected image
ControlsShown == activity # 0 /\ selectedImage # 0

\* a change of aspect ratio that puts the font size back as well
handleAspectRatioChange_font(ratio) ==
    /\ ControlsShown
    /\ aspectRatio' = ratio
    /\ verticalCropPosition' = 50
    /\ fontSizePercent' = 3
    /\ timer' = TRUE
    /\ UNCHANGED <<activity, selectedImage, imageRef, loading,
                   selectedStats, selectorStats, statsTimeouts, statsPosition, position,
                   canvas, painted, pointer>>
    /\ UNCHANGED <<pureVars, lookVars, uploadVars, pageVars>>

\* the aspect ratio buttons
handleAspectRatioChange(ratio) ==
    /\ ControlsShown
    /\ aspectRatio' = ratio
    /\ verticalCropPosition' = 50
    /\ timer' = IF aspectRatio # ratio \/ verticalCropPosition # 50 THEN TRUE ELSE timer
    /\ UNCHANGED <<activity, selectedImage, imageRef, loading, fontSizePercent,
                   selectedStats, selectorStats, statsTimeouts, statsPosition, position,
                   canvas, painted, pointer>>
    /\ UNCHANGED <<pureVars, lookVars, uploadVars, pageVars>>

\* the Font Size slider
SetFontSizePercent(f) ==
    /\ ControlsShown
    /\ fontSizePercent' = f
    /\ timer' = IF fontSizePercent # f THEN TRUE ELSE timer
    /\ UNCHANGED <<activity, selectedImage, imageRef, loading, aspectRatio,
                   verticalCropPosition, selectedStats, selectorStats, statsTimeouts,
                   statsPosition, position, canvas, painted, pointer>>
    /\ UNCHANGED <<pureVars, lookVars, uploadVars, pageVars>>

\* the Vertical Position slider, shown for every ratio but "original"
SetVerticalCropPosition(v) ==
    /\ ControlsShown
    /\ aspectRatio # "original"
    /\ verticalCropPosition' = v
    /\ timer' = IF verticalCropPosition # v THEN TRUE ELSE timer
    /\ UNCHANGED <<activity, selectedImage, imageRef, loading, aspectRatio,
                   fontSizePercent, selectedStats, selectorStats, statsTimeouts,
                   statsPosition, position, canvas, painted, pointer>>
    /\ UNCHANGED <<pureVars, lookVars, uploadVars, pageVars>>

\* the Background Opacity slider: `rgba(0, 0, 0, ${e.target.value})`
SetBackgroundColor(alpha) ==
    /\ ControlsShown
    /\ backgroundColor' = [rgb |-> <<0, 0, 0>>, alpha |-> alpha]
    /\ timer' = IF backgroundColor.alpha # alpha THEN TRUE ELSE timer
    /\ UNCHANGED <<activity, selectedImage, imageRef, loading, aspectRatio,
                   verticalCropPosition, fontSizePercent, selectedStats, selectorStats,
                   statsTimeouts, statsPosition, position, canvas, painted, pointer,
                   textColor>>
    /\ UNCHANGED <<pureVars, uploadVars, pageVars>>

\* the Text Color input
SetTextColor(colour) ==
    /\ ControlsShown
    /\ textColor' = colour
    /\ timer' = IF textColor # colour THEN TRUE ELSE timer
    /\ UNCHANGED <<activity, selectedImage, imageRef, loading, aspectRatio,
                   verticalCropPosition, fontSizePercent, selectedStats, selectorStats,
                   statsTimeouts, statsPosition, position, canvas, painted, pointer,
                   backgroundColor>>
    /\ UNCHANGED <<pureVars, uploadVars, pageVars>>

\* the Corner Radius slider: setStatsPosition(prev => ({...prev, borderRadius}))
SetBorderRadius(radius) ==
    /\ ControlsShown
    /\ statsPosition' = [statsPosition EXCEPT !.borderRadius = radius]
    /\ timer' = TRUE
    /\ UNCHANGED <<activity, selectedImage, imageRef, loading, aspectRatio,
                   verticalCropPosition, fontSizePercent, selectedStats, selectorStats,
                   statsTimeouts, position, canvas, painted, pointer>>
    /\ UNCHANGED <<pureVars, lookVars, uploadVars, pageVars>>

\* StatsSelector handleStatToggle: the local state changes now, the parent's
\* onStatsChange is left to a setTimeout
handleStatToggle(statKey) ==
    /\ ControlsShown
    /\ statKey \in selectorKeys(ActivityOf(activity))
    /\ Len(statsTimeouts) < MaxTimeouts
    /\ selectorStats' = toggled(selectorStats, statKey)
    /\ statsTimeouts' = Append(statsTimeouts, toggled(selectorStats, statKey))
    /\ UNCHANGED <<activity, selectedImage, imageRef, loading, aspectRatio,
                   verticalCropPosition, fontSizePercent, selectedStats, statsPosition,
                   position, canvas, timer, painted, pointer>>
    /\ UNCHANGED <<pureVars, lookVars, uploadVars, pageVars>>

\* the setTimeout of handleStatToggle fires: handleStatsChange
handleStatsChange ==
    /\ statsTimeouts # <<>>
    /\ selectedStats' = Head(statsTimeouts)
    /\ statsTimeouts' = Tail(statsTimeouts)
    /\ timer' = schedules(activity, selectedImage)
    /\ UNCHANGED <<activity, selectedImage, imageRef, loading, aspectRatio,
                   verticalCropPosition, fontSizePercent, selectorStats, statsPosition,
                   position, canvas, painted, pointer>>
    /\ UNCHANGED <<pureVars, lookVars, uploadVars, pageVars>>

handlePositionChange(newPosition) ==
    /\ ControlsShown
    /\ position' = newPosition
    /\ IF imageRef = 0
       THEN /\ statsPosition' = statsPosition
            /\ timer' = IF position # newPosition THEN TRUE ELSE timer
       ELSE /\ statsPosition' =
                 LET xy == presetXY(newPosition, canvas, statsPosition.width,
                                    Len(selectedStats), fontSizePercent)
                 IN  [statsPosition EXCEPT !.x = xy.x, !.y = xy.y]
            /\ timer' = TRUE
    /\ UNCHANGED <<activity, selectedImage, imageRef, loading, aspectRatio,
                   verticalCropPosition, fontSizePercent, selectedStats, selectorStats,
                   statsTimeouts, canvas, painted, pointer>>
    /\ UNCHANGED <<pureVars, lookVars, uploadVars, pageVars>>

\* onMouseDown of the canvas, which exists once there is an activity
startDragging(px, py) ==
    /\ activity # 0
    /\ pointer' = [kind |-> "down", x |-> px, y |-> py]
    /\ IF hitsBox(px, py, statsPosition, Len(selectedStats), canvas.height,
                  fontSizePercent)
       THEN /\ statsPosition' =
                 [statsPosition EXCEPT !.isDragging = TRUE,
                                       !.dragOffsetX = 2 * px - statsPosition.x,
                                       !.dragOffsetY = 2 * py - statsPosition.y]
            /\ timer' = schedules(activity, selectedImage)
       ELSE UNCHANGED <<statsPosition, timer>>
    /\ UNCHANGED <<activity, selectedImage, imageRef, loading, aspectRatio,
                   verticalCropPosition, fontSizePercent, selectedStats, selectorStats,
                   statsTimeouts, position, canvas, painted>>
    /\ UNCHANGED <<pureVars, lookVars, uploadVars, pageVars>>

\* stopDragging that also puts the box back to the corner where it started
stopDragging_home ==
    /\ activity # 0
    /\ statsPosition.isDragging
    /\ pointer' = [kind |-> "up", x |-> 0, y |-> 0]
    /\ statsPosition' = [statsPosition EXCEPT !.isDragging = FALSE, !.x = 40, !.y = 40]
    /\ timer' = schedules(activity, selectedImage)
    /\ UNCHANGED <<activity, selectedImage, imageRef, loading, aspectRatio,
                   verticalCropPosition, fontSizePercent, selectedStats, selectorStats,
                   statsTimeouts, position, canvas, painted>>
    /\ UNCHANGED <<pureVars, lookVars, uploadVars, pageVars>>

\* onMouseUp and onMouseLeave of the canvas
stopDragging ==
    /\ activity # 0
    /\ statsPosition.isDragging
    /\ pointer' = [kind |-> "up", x |-> 0, y |-> 0]
    /\ statsPosition' = [statsPosition EXCEPT !.isDragging = FALSE]
    /\ timer' = schedules(activity, selectedImage)
    /\ UNCHANGED <<activity, selectedImage, imageRef, loading, aspectRatio,
                   verticalCropPosition, fontSizePercent, selectedStats, selectorStats,
                   statsTimeouts, position, canvas, painted>>
    /\ UNCHANGED <<pureVars, lookVars, uploadVars, pageVars>>

\* onMouseMove of the canvas; it returns at once unless a drag is under way
dragStats(px, py) ==
    /\ activity # 0
    /\ pointer' = [kind |-> "move", x |-> px, y |-> py]
    /\ IF statsPosition.isDragging
       THEN /\ statsPosition' =
                 LET xy == dragXY(px, py, statsPosition, canvas, Len(selectedStats),
                                  fontSizePercent)
                 IN  [statsPosition EXCEPT !.x = xy.x, !.y = xy.y]
            /\ timer' = schedules(activity, selectedImage)
       ELSE UNCHANGED <<statsPosition, timer>>
    /\ UNCHANGED <<activity, selectedImage, imageRef, loading, aspectRatio,
                   verticalCropPosition, fontSizePercent, selectedStats, selectorStats,
                   statsTimeouts, position, canvas, painted>>
    /\ UNCHANGED <<pureVars, lookVars, uploadVars, pageVars>>

\* a render that stores the resolved width whenever it runs
updatesWidth_any(pos, maxTextWidth) ==
    ~pos.hasSetWidth \/ Abs(maxTextWidth - pos.width) >= 0

\* a render that stores a width once and never again
updatesWidth_once(pos, maxTextWidth) == ~pos.hasSetWidth

\* the width that a render stores: if (!hasSetWidth || Math.abs(...) > 100)
updatesWidth(pos, maxTextWidth) ==
    ~pos.hasSetWidth \/ Abs(maxTextWidth - pos.width) > WidthThreshold

\* the debounce timer of the render effect fires and renderCanvas runs
renderCanvas ==
    /\ timer
    /\ IF imageRef = 0
       THEN /\ timer' = FALSE
            /\ UNCHANGED <<statsPosition, canvas, painted, drawn>>
       ELSE LET cnv == canvasSizeOf(ImageOf(imageRef), aspectRatio)
                act == ActivityOf(activity)
                maxTextWidth == maxTextWidthOf(act, selectedStats, cnv.width, cnv.height,
                                               fontSizePercent)
            IN  /\ canvas' = cnv
                /\ drawn' = imageRef
                /\ painted' = paintOf(act, selectedStats, statsPosition, cnv,
                                      fontSizePercent)
                /\ IF updatesWidth(statsPosition, maxTextWidth)
                   THEN /\ statsPosition' = [statsPosition EXCEPT
                                                !.width = maxTextWidth,
                                                !.hasSetWidth = TRUE]
                        /\ timer' = TRUE
                   ELSE /\ statsPosition' = statsPosition
                        /\ timer' = FALSE
    /\ UNCHANGED <<activity, selectedImage, imageRef, loading, aspectRatio,
                   verticalCropPosition, fontSizePercent, selectedStats, selectorStats,
                   statsTimeouts, position, pointer, error>>
    /\ UNCHANGED <<pureVars, lookVars, pageVars>>

\* the threshold of the earlier revision of the editor
EarlierWidthThreshold == 50

\* an earlier revision with the threshold of the present one
updatesWidthEarlier_wide(pos, maxTextWidth) ==
    Abs(maxTextWidth - pos.width) > WidthThreshold

\* the earlier revision: if (Math.abs(maxTextWidth - statsPosition.width) > 50)
updatesWidthEarlier(pos, maxTextWidth) ==
    Abs(maxTextWidth - pos.width) > EarlierWidthThreshold

(***************************************************************************)
(* The width update of renderCanvas on its own, in both revisions: the     *)
(* stored width, whether a render has stored one, and the resolved width.  *)
(***************************************************************************)
StoredWidths == {200, 800}

WidthInputs ==
    {[width |-> w, hasSetWidth |-> h, maxTextWidth |-> w + d] :
        w \in StoredWidths, h \in BOOLEAN, d \in (0 - MaxWidthDelta)..MaxWidthDelta}

NoWidth == [revision |-> "none", stored |-> FALSE, width |-> 0, hasSetWidth |-> FALSE]

WidthIdle ==
    /\ widthIn = [width |-> 800, hasSetWidth |-> FALSE, maxTextWidth |-> 800]
    /\ widthOut = NoWidth

WidthInit ==
    /\ widthIn \in WidthInputs
    /\ widthOut = NoWidth

\* the width update of ImageEditor.tsx
storeWidth ==
    /\ widthOut' =
          IF updatesWidth(widthIn, widthIn.maxTextWidth)
          THEN [revision |-> "present", stored |-> TRUE,
                width |-> widthIn.maxTextWidth, hasSetWidth |-> TRUE]
          ELSE [revision |-> "present", stored |-> FALSE,
                width |-> widthIn.width, hasSetWidth |-> widthIn.hasSetWidth]
    /\ UNCHANGED <<widthIn, paceVars, cropVars, wrapVars, fontVars, routeVars, editorVars, pageVars>>

\* the width update of the earlier revision, whose state has no hasSetWidth
storeWidthEarlier ==
    /\ ~widthIn.hasSetWidth
    /\ widthOut' =
          IF updatesWidthEarlier(widthIn, widthIn.maxTextWidth)
          THEN [revision |-> "earlier", stored |-> TRUE,
                width |-> widthIn.maxTextWidth, hasSetWidth |-> FALSE]
          ELSE [revision |-> "earlier", stored |-> FALSE,
                width |-> widthIn.width, hasSetWidth |-> FALSE]
    /\ UNCHANGED <<widthIn, paceVars, cropVars, wrapVars, fontVars, routeVars, editorVars, pageVars>>

\* another render, with another stored and resolved width
WidthChange ==
    /\ widthIn' \in WidthInputs
    /\ widthOut' = NoWidth
    /\ UNCHANGED <<paceVars, cropVars, wrapVars, fontVars, routeVars, editorVars, pageVars>>

WidthNext == storeWidth \/ storeWidthEarlier \/ WidthChange

PureIdle == PaceIdle /\ CropIdle /\ WrapIdle /\ FontIdle /\ WidthIdle /\ RouteIdle

\* choosing an activity, uploading an image and the repaint
SessionNext ==
    \/ \E a \in ActivityIds : SelectActivity(a)
    \/ \E i \in ImageIds : UploadImage(i)
    \/ \E i \in ImageIds : ImageLoaded(i)
    \/ renderCanvas

\* the mouse on the canvas
DragNext ==
    \/ SessionNext
    \/ \E px \in PointerXs, py \in PointerYs : startDragging(px, py)
    \/ stopDragging
    \/ \E px \in PointerXs, py \in PointerYs : dragStats(px, py)

\* the controls of the overlay's contents and size
StyleNext ==
    \/ SessionNext
    \/ \E r \in EditorRatios : handleAspectRatioChange(r)
    \/ \E f \in FontPercents : SetFontSizePercent(f)
    \/ \E k \in ToggleKeys : handleStatToggle(k)
    \/ handleStatsChange

\* the user clears the topmost ticked check box below the title
ClearStat ==
    LET ticked == Filter(selectorStats, {"name"}) IN
    /\ ticked # <<>>
    /\ handleStatToggle(Head(ticked))

\* an activity and an image chosen once, check boxes cleared, the preset
\* buttons, and a drag that starts at the top left of the canvas
PresetNext ==
    \/ \E a \in PresetActivities : activity = 0 /\ SelectActivity(a)
    \/ \E i \in ImageIds : selectedImage = 0 /\ UploadImage(i)
    \/ \E i \in ImageIds : ImageLoaded(i)
    \/ renderCanvas
    \/ ClearStat
    \/ handleStatsChange
    \/ \E p \in Positions : handlePositionChange(p)
    \/ \E px \in PresetPointerXs, py \in PresetDownYs : startDragging(px, py)
    \/ stopDragging
    \/ \E px \in PresetPointerXs, py \in PresetPointerYs :
          statsPosition.isDragging /\ dragStats(px, py)

\* the images that the user uploads one after the other
UploadIds == {1, 2}

\* an activity chosen once, and files chosen in the file input
UploadNext ==
    \/ \E a \in PresetActivities : activity = 0 /\ SelectActivity(a)
    \/ \E i \in UploadIds : UploadImage(i)
    \/ \E i \in UploadIds : ImageLoaded(i)
    \/ \E file \in BadFiles : rejectUpload(file)
    \/ renderCanvas

\* one login, the list and the clicks on its activities
SelectNext ==
    \/ handleLogin
    \/ handleLoadMore
    \/ \E i \in 1..MaxFetches, outcome \in ClientOutcomes : fetchActivities(i, outcome)
    \/ \E a \in ActivityIds : handleSelectActivity(a)
    \/ \E i \in 1..MaxFetches, outcome \in ClientOutcomes :
          selectActivityReturns(i, outcome)

\* logins, logouts and the pages of the list
ListNext ==
    \/ handleLogin
    \/ handleLogout
    \/ handleLoadMore
    \/ \E i \in 1..MaxFetches, outcome \in ClientOutcomes : fetchActivities(i, outcome)

\* the values that the sliders and the colour input are moved to
CropSliderValues == {0, 50, 100}

Alphas == {0, 5, 10}

TextColors == {"#ffffff", "#000000"}

BorderRadii == {0, 50}

\* an activity chosen once, and the controls of the render parameters
LookNext ==
    \/ \E a \in PresetActivities : activity = 0 /\ SelectActivity(a)
    \/ \E i \in ImageIds : UploadImage(i)
    \/ \E i \in ImageIds : ImageLoaded(i)
    \/ renderCanvas
    \/ \E r \in EditorRatios : handleAspectRatioChange(r)
    \/ \E v \in CropSliderValues : SetVerticalCropPosition(v)
    \/ \E alpha \in Alphas : SetBackgroundColor(alpha)
    \/ \E colour \in TextColors : SetTextColor(colour)
    \/ \E f \in FontPercents : SetFontSizePercent(f)
    \/ \E radius \in BorderRadii : SetBorderRadius(radius)

\* the preset buttons and the aspect ratio buttons, without the mouse
ResizeNext ==
    \/ SessionNext
    \/ \E r \in EditorRatios : handleAspectRatioChange(r)
    \/ \E p \in Positions : handlePositionChange(p)

(***************************************************************************)
(* Specifications.                                                         *)
(***************************************************************************)
InitPace == PaceInit /\ CropIdle /\ WrapIdle /\ FontIdle /\ WidthIdle /\ RouteIdle /\ EditorInit /\ PageInit

SpecPace == InitPace /\ [][PaceNext]_vars

InitCrop == CropInit /\ PaceIdle /\ WrapIdle /\ FontIdle /\ WidthIdle /\ RouteIdle /\ EditorInit /\ PageInit

SpecCrop == InitCrop /\ [][CropNext]_vars

InitWrap == WrapInit /\ PaceIdle /\ CropIdle /\ FontIdle /\ WidthIdle /\ RouteIdle /\ EditorInit /\ PageInit

SpecWrap == InitWrap /\ [][WrapNext]_vars

InitFont == FontInit /\ PaceIdle /\ CropIdle /\ WrapIdle /\ WidthIdle /\ RouteIdle /\ EditorInit /\ PageInit

SpecFont == InitFont /\ [][FontNext]_vars

InitWidth == WidthInit /\ PaceIdle /\ CropIdle /\ WrapIdle /\ FontIdle /\ RouteIdle /\ EditorInit /\ PageInit

SpecWidth == InitWidth /\ [][WidthNext]_vars

InitRoute == PaceIdle /\ CropIdle /\ WrapIdle /\ FontIdle /\ WidthIdle /\ RouteIdle /\ EditorInit /\ PageInit

SpecRoute == InitRoute /\ [][RouteNext]_vars

SpecSession == InitRoute /\ [][SessionRouteNext]_vars

Init == EditorInit /\ PureIdle /\ PageInit

SpecDrag == Init /\ [][DragNext]_vars

SpecStyle == Init /\ [][StyleNext]_vars

SpecResize == Init /\ [][ResizeNext]_vars

SpecLook == Init /\ [][LookNext]_vars

SpecPreset == Init /\ [][PresetNext]_vars

SpecUpload == Init /\ [][UploadNext]_vars

SpecSelect == Init /\ [][SelectNext]_vars

SpecList == Init /\ [][ListNext]_vars

(***************************************************************************)
(* C1: for every speed s > 0 formatPace returns M:SS/km with SS in 00..59 *)
(* (never 60), and for s = 0 or an undefined speed it returns exactly "-". *)
(***************************************************************************)
IsPaceString(s) ==
    \E m \in 0..(100000 \div 60), ss \in 0..59 :
        s = NumToString(m) \o <<":">> \o padStart(NumToString(ss), 2, "0")
              \o <<"/", "k", "m">>

C1_PaceWellFormed ==
    paceOut # Unset =>
        IF speedIn.kind = "number" /\ speedIn.v > 0
        THEN IsPaceString(paceOut)
        ELSE paceOut = <<"-">>

(***************************************************************************)
(* C2: for every source size and every ratio other than "original", the   *)
(* source rectangle has srcWidth / srcHeight equal to the target ratio    *)
(* and lies inside the source bitmap.                                      *)
(***************************************************************************)
C2_CropRatioAndContained ==
    (cropOut # NoCrop /\ cropIn.aspectRatio # "original") =>
        /\ cropOut.srcWidth[1] * cropOut.srcHeight[2] * ratioParts(cropIn.aspectRatio)[2]
             = cropOut.srcHeight[1] * cropOut.srcWidth[2] * ratioParts(cropIn.aspectRatio)[1]
        /\ cropOut.srcX[1] >= 0
        /\ cropOut.srcY[1] >= 0
        /\ FLe(FAdd(cropOut.srcX, cropOut.srcWidth), FInt(cropIn.iw))
        /\ FLe(FAdd(cropOut.srcY, cropOut.srcHeight), FInt(cropIn.ih))

\* a source wider than the target has been cropped at both sides
C2_Witness ==
    /\ cropOut # NoCrop
    /\ cropIn.aspectRatio = "9:16"
    /\ cropIn.iw = 8
    /\ cropIn.ih = 8
    /\ cropOut.srcX[1] > 0
    /\ FAdd(cropOut.srcX, cropOut.srcWidth)[1] * 1 < 8 * FAdd(cropOut.srcX, cropOut.srcWidth)[2]

(***************************************************************************)
(* C3: for a source taller than the crop height and a ratio other than    *)
(* "original", verticalCropPosition 0 gives source-y 0, 100 gives         *)
(* sourceHeight - cropHeight, and 50 gives (sourceHeight - cropHeight)/2. *)
(***************************************************************************)
C3_VerticalCropOffset ==
    (/\ cropOut # NoCrop
     /\ cropIn.aspectRatio # "original"
     /\ ~FLe(FInt(cropIn.ih), cropOut.srcHeight)) =>
        LET margin == FSub(FInt(cropIn.ih), cropOut.srcHeight) IN
        cropOut.srcY = FDiv(FMul(margin, FInt(cropIn.verticalCropPosition)), FInt(100))

(***************************************************************************)
(* C4: for every activity name and every available width, each line that  *)
(* the greedy word wrap produces measures no more than the available      *)
(* width, unless the line is a single word; in the line-count pass and in *)
(* the painting pass of renderCanvas alike.                                *)
(***************************************************************************)
LineFits(line, limit2) ==
    Len(line) <= 1 \/ 2 * measureText(lineChars(line), 2) <= limit2

C4_WrappedLinesFit ==
    wrapOut.done =>
        /\ \A i \in 1..Len(wrapOut.temp) :
              LineFits(wrapOut.temp[i], 2 * (wrapIn.width - 2 * wrapIn.padding))
        /\ \A i \in 1..Len(wrapOut.paint) :
              LineFits(wrapOut.paint[i], 2 * wrapIn.width - 5 * wrapIn.padding)

\* a title broken after a line of two words, and into more lines when painted
C4_Witness ==
    /\ wrapOut.done
    /\ Len(wrapOut.temp) = 2
    /\ Len(wrapOut.temp[1]) = 2
    /\ Len(wrapOut.paint) = 3

C6_DragKeepsBoxInsideCanvas ==
    (/\ pointer.kind = "move"
     /\ statsPosition.isDragging
     /\ painted # Blank
     /\ painted.x = statsPosition.x
     /\ painted.y = statsPosition.y) =>
        LET padding   == paddingOf(canvas.height, fontSizePercent)
            minHeight == dragMinHeightOf(Len(selectedStats), canvas.height,
                                         fontSizePercent)
        IN  /\ 0 <= statsPosition.x
            /\ statsPosition.x <= 2 * (canvas.width - statsPosition.width - padding)
            /\ 0 <= statsPosition.y
            /\ statsPosition.y <= 2 * (canvas.height - minHeight - padding)
            /\ painted.x + painted.w <= 2 * canvas.width
            /\ painted.y + painted.h <= 2 * canvas.height

(***************************************************************************)
(* C7: selecting a preset sets the box coordinates to the preset's        *)
(* definition, computed from the canvas size, the box width, the minimum  *)
(* height and the padding ("top-left" gives x = padding and y = padding), *)
(* from any reachable state, also after a drag, and leaves the drag       *)
(* sub-state untouched.                                                    *)
(***************************************************************************)
PresetDefinition(preset) ==
    LET padding   == paddingOf(canvas.height, fontSizePercent)
        boxWidth  == Min(statsPosition.width, canvas.width - 2 * padding)
        minHeight == 2 * padding + headerHeightOf(canvas.height, fontSizePercent)
                       + Len(selectedStats) * lineHeightOf(canvas.height, fontSizePercent)
    IN  [x |-> IF preset \in {"top-left", "bottom-left"} THEN 2 * padding
               ELSE IF preset \in {"top-right", "bottom-right"}
                    THEN 2 * Max(padding, canvas.width - boxWidth - padding)
                    ELSE Max(2 * padding, canvas.width - boxWidth),
         y |-> IF preset \in {"top-left", "top-center", "top-right"} THEN 2 * padding
               ELSE IF preset \in {"bottom-left", "bottom-center", "bottom-right"}
                    THEN 2 * Max(padding, canvas.height - minHeight - padding)
                    ELSE Max(2 * padding, canvas.height - minHeight)]

\* the claim as it is written: from any reachable state
C7_PresetFromAnyState ==
    [][\A preset \in Positions :
          handlePositionChange(preset) =>
              statsPosition' = [statsPosition EXCEPT !.x = PresetDefinition(preset).x,
                                                     !.y = PresetDefinition(preset).y]
      ]_vars

\* C7 for the states in which the image has loaded
C7_PresetOnceImageLoaded ==
    [][\A preset \in Positions :
          (handlePositionChange(preset) /\ imageRef # 0) =>
              statsPosition' = [statsPosition EXCEPT !.x = PresetDefinition(preset).x,
                                                     !.y = PresetDefinition(preset).y]
      ]_vars

\* "bottom-right" chosen on the painted canvas after the box had been dragged
C7_Witness ==
    /\ position = "bottom-right"
    /\ imageRef # 0
    /\ canvas.height = 800
    /\ painted # Blank
    /\ statsPosition.dragOffsetY # 0
    /\ ~statsPosition.isDragging
    /\ statsPosition.x = PresetDefinition("bottom-right").x
    /\ statsPosition.y = PresetDefinition("bottom-right").y
    /\ statsPosition.x > 2 * paddingOf(canvas.height, fontSizePercent)

(***************************************************************************)
(* C8: renderCanvas computes overlayHeight = 2*padding + headerHeight     *)
(* + numNonTitleStats*lineHeight + titleLines*lineHeight, where           *)
(* numNonTitleStats counts the selected stats other than "name" and       *)
(* titleLines is the number of wrapped title lines, 0 when no title is    *)
(* rendered.                                                               *)
(***************************************************************************)
C8_OverlayHeight ==
    (painted # Blank /\ ~timer) =>
        LET padding      == paddingOf(canvas.height, fontSizePercent)
            headerHeight == headerHeightOf(canvas.height, fontSizePercent)
            lineHeight   == lineHeightOf(canvas.height, fontSizePercent)
            numNonTitleStats == Len(Filter(selectedStats, {"name"}))
            titleLines   == IF Includes(selectedStats, "name") THEN painted.titleLines
                            ELSE 0
        IN  painted.h = 2 * (2 * padding + headerHeight + numNonTitleStats * lineHeight
                               + titleLines * lineHeight)

C10_DragStartsInsidePaintedBox ==
    [][\A px \in PointerXs, py \in PointerYs :
          (/\ startDragging(px, py)
           /\ ~statsPosition.isDragging
           /\ painted # Blank
           /\ ~timer) =>
              LET inside == /\ painted.x <= 2 * px
                            /\ 2 * px <= painted.x + painted.w
                            /\ painted.y <= 2 * py
                            /\ 2 * py <= painted.y + painted.h
              IN  /\ statsPosition'.isDragging <=> inside
                  /\ inside => /\ statsPosition'.dragOffsetX = 2 * px - painted.x
                               /\ statsPosition'.dragOffsetY = 2 * py - painted.y
      ]_vars

\* C11: Drag end.  A pointer-up or pointer-leave while a drag is under way
\* ends the drag and leaves x, y and width of the box as they were; and a
\* pointer-move while no drag is under way leaves the stored box untouched.
C11_DragEndsAndIdleIgnoresMoves ==
    [][/\ (stopDragging /\ statsPosition.isDragging) =>
            /\ ~statsPosition'.isDragging
            /\ statsPosition'.x = statsPosition.x
            /\ statsPosition'.y = statsPosition.y
            /\ statsPosition'.width = statsPosition.width
       /\ \A px \in PointerXs, py \in PointerYs :
            (dragStats(px, py) /\ ~statsPosition.isDragging) =>
                statsPosition' = statsPosition]_vars

\* a drag that moved the box away from where it started has ended, and the
\* pointer has moved over the canvas again afterwards
C11_Witness ==
    /\ pointer.kind = "move"
    /\ ~statsPosition.isDragging
    /\ statsPosition.dragOffsetY # 0
    /\ statsPosition.y > 2 * paddingOf(canvas.height, fontSizePercent)
    /\ imageRef # 0

\* C12: Stat row order.  Once a paint is up to date, the rows below the title
\* are exactly the selected keys other than "name", each once, in the order
\* of the catalog and not in the order of selection; "name" is never a row.
C12_RowsAreSelectedKeysInCatalogOrder ==
    (painted # Blank /\ ~timer) =>
        /\ painted.rows =
              Keep(StatCatalog, {selectedStats[i] : i \in 1..Len(selectedStats)} \ {"name"})
        /\ \A i \in 1..Len(painted.rows) : painted.rows[i] # "name"

\* C13: Token refresh retry.  On both routes no request calls refreshToken
\* more than once or fetches upstream more than twice; and a request whose
\* first fetch came back 401 has, when it returns, called refreshToken exactly
\* once, and then either retried the fetch exactly once (returning 200 if the
\* retry succeeded and the terminal 500 if not) or, the refresh having
\* failed, returned the terminal 500 without a second fetch.
C13_OneRefreshOneRetry ==
    /\ request.refreshes <= 1
    /\ request.fetches <= 2
    /\ (request.pc = "done" /\ request.first = "401") =>
          /\ request.refreshes = 1
          /\ IF request.refresh = "ok"
                THEN /\ request.fetches = 2
                     /\ request.status = (IF request.retry = "ok" THEN 200 ELSE 500)
                ELSE /\ request.fetches = 1
                     /\ request.status = 500

\* the detail route has refreshed after a 401 and the retry has failed too
C13_Witness ==
    /\ request.route = "activity"
    /\ request.pc = "done"
    /\ request.first = "401"
    /\ request.refresh = "ok"
    /\ request.retry = "401"
    /\ request.status = 500

\* C14: Debounced repaint.  The changes of a burst only set the debounce timer
\* anew and paint nothing; the one renderCanvas run that follows the last of
\* them paints the state as the last change left it and is the only run, that
\* is, it leaves no further run scheduled.
C14_BurstGivesOneRun ==
    [][/\ renderCanvas =>
            /\ ~timer'
            /\ imageRef # 0 =>
                  painted' = paintOf(ActivityOf(activity), selectedStats, statsPosition,
                                     canvasSizeOf(ImageOf(imageRef), aspectRatio),
                                     fontSizePercent)
       /\ (timer /\ timer' /\ ~renderCanvas) => painted' = painted]_vars

\* C15: Pointer-drag repaint.  Every pointer-move processed while a drag is
\* under way, with an image loaded, repaints the canvas in that same step,
\* with the box where the move has put it, not waiting for the debounce timer.
C15_MoveRepaintsAtOnce ==
    [][\A px \in PointerXs, py \in PointerYs :
          (/\ dragStats(px, py)
           /\ statsPosition.isDragging
           /\ selectedImage # 0
           /\ imageRef # 0) =>
              painted' = paintOf(ActivityOf(activity), selectedStats, statsPosition',
                                 canvasSizeOf(ImageOf(imageRef), aspectRatio),
                                 fontSizePercent)]_vars

\* the corner where the box starts: x = 20, y = 20, in half pixels
DefaultCorner == [x |-> 40, y |-> 40]

\* C16: Overlay re-seeding.  Every change of the aspect ratio and every change
\* of the activity puts the box back to the default corner (the place where
\* it starts, or the top-left preset), wherever a preset had put it before.
C16_ReseededOnRatioOrActivityChange ==
    [][((\E r \in EditorRatios : r # aspectRatio /\ handleAspectRatioChange(r))
        \/ (\E a \in ActivityIds : a # activity /\ activity # 0 /\ SelectActivity(a))) =>
          \/ /\ statsPosition'.x = DefaultCorner.x
             /\ statsPosition'.y = DefaultCorner.y
          \/ /\ statsPosition'.x = 2 * paddingOf(canvas.height, fontSizePercent)
             /\ statsPosition'.y = 2 * paddingOf(canvas.height, fontSizePercent)]_vars

\* C17: Re-clamping on canvas resize.  A repaint that changes the size of the
\* canvas (another aspect ratio, another image) leaves the stored box, with
\* its x, y, width and the overlay height of that repaint, inside the new
\* canvas.  Positions and heights are in half pixels.
C17_ReclampedOnResize ==
    [][(renderCanvas /\ imageRef # 0 /\ canvas' # canvas) =>
          /\ 0 <= statsPosition'.x
          /\ 0 <= statsPosition'.y
          /\ statsPosition'.x + 2 * statsPosition'.width <= 2 * canvas'.width
          /\ statsPosition'.y + painted'.h <= 2 * canvas'.height]_vars

C19_StoresOnlyAboveThreshold ==
    (widthOut.revision # "none") =>
        LET threshold == IF widthOut.revision = "present" THEN 100 ELSE 50 IN
        /\ widthOut.stored => Abs(widthIn.maxTextWidth - widthIn.width) > threshold
        /\ ~widthOut.stored => widthOut.width = widthIn.width

\* C19, restated: in ImageEditor.tsx a render stores the resolved width
\* exactly when no render has stored a width yet or the resolved width differs
\* from the stored one by more than 100 px; in the earlier revision, exactly
\* when it differs by more than 50 px; every other render leaves the stored
\* width as it was, and a render that stores, stores the resolved width.
C19_StoresAboveThresholdOrFirst ==
    (widthOut.revision # "none") =>
        LET delta == Abs(widthIn.maxTextWidth - widthIn.width) IN
        /\ widthOut.stored <=>
              IF widthOut.revision = "present"
              THEN ~widthIn.hasSetWidth \/ delta > 100
              ELSE delta > 50
        /\ widthOut.stored => widthOut.width = widthIn.maxTextWidth
        /\ ~widthOut.stored => /\ widthOut.width = widthIn.width
                               /\ widthOut.hasSetWidth = widthIn.hasSetWidth

\* the first render of ImageEditor.tsx has stored a width 54 px from the
\* initial 800
C19_Witness ==
    /\ widthOut.revision = "present"
    /\ widthOut.stored
    /\ ~widthIn.hasSetWidth
    /\ widthIn.width = 800
    /\ widthIn.maxTextWidth = 746
    /\ widthOut.width = 746

\* the render parameters other than the aspect ratio and the vertical crop
\* offset
LookParameters ==
    <<backgroundColor, textColor, fontSizePercent, statsPosition.borderRadius>>

\* the setters of one render parameter each, the aspect ratio apart: each
\* leaves the other five as they were; and so does a run of renderCanvas
SettersAreIndependent ==
    /\ (\E v \in CropSliderValues : SetVerticalCropPosition(v)) =>
          UNCHANGED <<aspectRatio, LookParameters>>
    /\ (\E alpha \in Alphas : SetBackgroundColor(alpha)) =>
          UNCHANGED <<aspectRatio, verticalCropPosition, textColor, fontSizePercent,
                      statsPosition.borderRadius>>
    /\ (\E colour \in TextColors : SetTextColor(colour)) =>
          UNCHANGED <<aspectRatio, verticalCropPosition, backgroundColor,
                      fontSizePercent, statsPosition.borderRadius>>
    /\ (\E f \in FontPercents : SetFontSizePercent(f)) =>
          UNCHANGED <<aspectRatio, verticalCropPosition, backgroundColor, textColor,
                      statsPosition.borderRadius>>
    /\ (\E radius \in BorderRadii : SetBorderRadius(radius)) =>
          UNCHANGED <<aspectRatio, verticalCropPosition, backgroundColor, textColor,
                      fontSizePercent>>
    /\ renderCanvas => UNCHANGED <<aspectRatio, verticalCropPosition, LookParameters>>

\* C20: Render-parameter independence.  Each action of the user that sets one
\* of aspect ratio, vertical crop offset, background colour and alpha, text
\* colour, font-size ratio and corner radius leaves the other five as they
\* were, and a run of renderCanvas changes none of the six.
C20_ParametersIndependent ==
    [][/\ SettersAreIndependent
       /\ (\E r \in EditorRatios : handleAspectRatioChange(r)) =>
             UNCHANGED <<verticalCropPosition, LookParameters>>]_vars

\* C20, restated: as above, except that choosing an aspect ratio also puts
\* the vertical crop offset back to 50.
C20_IndependentButRatioCentresCrop ==
    [][/\ SettersAreIndependent
       /\ (\E r \in EditorRatios : handleAspectRatioChange(r)) =>
             /\ verticalCropPosition' = 50
             /\ UNCHANGED LookParameters]_vars

\* every parameter has been moved away from its initial value, the ratio was
\* chosen last (the crop offset is 50 again), and a repaint has gone by
C20_Witness ==
    /\ aspectRatio # "original"
    /\ verticalCropPosition = 50
    /\ backgroundColor.alpha # 5
    /\ textColor # "#ffffff"
    /\ fontSizePercent # 3
    /\ statsPosition.borderRadius # 50
    /\ painted # Blank
    /\ ~timer
    /\ canvas.height = 450
\* C21: No racing completions on activity selection.  When the detail fetches
\* of the activities clicked have all come back, each with its activity, the
\* activity that ActivitySelector holds as selected and the one that the
\* editor has been given are the one clicked last, whatever the order in
\* which the responses arrived.
C21_LastClickWins ==
    (/\ Len(detail.pending) = 0
     /\ detail.lastClicked # 0
     /\ ~detail.failed) =>
        /\ selector.selectedActivity = detail.lastClicked
        /\ activity = detail.lastClicked

\* C22: Upload validation.  A step that puts up an error message (the file
\* chosen is not an image, or cannot be read) changes nothing else:
\* selectedImage, the loaded image, the canvas and what is painted on it, and
\* the rest of the editor's state are as they were before the file was chosen;
\* and every file turned down puts up a message.
C22_RejectedUploadChangesNothingElse ==
    [][/\ (error' # error /\ error' # "none") =>
             UNCHANGED <<activity, selectedImage, imageRef, loading, aspectRatio,
                         verticalCropPosition, fontSizePercent, selectedStats,
                         selectorStats, statsTimeouts, statsPosition, position,
                         canvas, timer, painted, pointer, drawn, lookVars>>
       /\ \A file \in BadFiles : rejectUpload(file) => error' # "none"]_vars

\* a file has been turned down while an image chosen before is on the canvas
C22_Witness ==
    /\ error = "Error processing image"
    /\ selectedImage = 1
    /\ imageRef = 1
    /\ drawn = 1
    /\ painted # Blank

\* C23: Upload paints the uploaded image.  Once nothing is left to happen
\* without the user (no load event is to come and no render is scheduled), the
\* canvas shows the image uploaded last, not nothing and not an image loaded
\* before it, in whatever order the load event and the debounced render came.
C23_UploadedImageIsPainted ==
    (selectedImage # 0 /\ loading = {} /\ ~timer) => drawn = selectedImage

\* maxTextWidth as a render resolves it on the canvas as the last render left it
resolvedWidth ==
    maxTextWidthOf(ActivityOf(activity), selectedStats, canvas.width, canvas.height,
                   fontSizePercent)

\* C24: Render loop terminates.  A render that stores a width leaves a state
\* from which the next render stores none, and a render that stores no width
\* updates no state and schedules no further render: left alone, the cycle of
\* render, width update and scheduled re-render stops after at most one
\* width update.
C24_RenderLoopEnds ==
    [][(timer /\ imageRef # 0 /\ renderCanvas) =>
          /\ statsPosition' # statsPosition =>
                ~updatesWidth(statsPosition',
                              maxTextWidthOf(ActivityOf(activity'), selectedStats',
                                             canvas'.width, canvas'.height,
                                             fontSizePercent'))
          /\ ~updatesWidth(statsPosition,
                           maxTextWidthOf(ActivityOf(activity), selectedStats,
                                          canvas'.width, canvas'.height,
                                          fontSizePercent)) =>
                (statsPosition' = statsPosition /\ ~timer')]_vars

\* a render has stored a width and the render after it has stored none
C24_Witness ==
    /\ painted # Blank
    /\ ~timer
    /\ imageRef # 0
    /\ statsPosition.hasSetWidth
    /\ statsPosition.width = resolvedWidth
    /\ statsPosition.width # 800

\* C25: Title line-count consistency.  In every render that paints a title,
\* the number of title lines that went into the overlay height is the number
\* of title lines painted.
C25_TitleLinesCountedArePainted ==
    (painted # Blank /\ painted.lines # 0) => painted.titleLines = painted.lines

\* C26: Row-count consistency.  In every render the number of rows below the
\* title that went into the overlay height is the number of stat rows
\* painted, also with the default selection of an activity that lacks the
\* optional fields.
C26_RowsCountedArePainted ==
    painted # Blank => painted.counted = Len(painted.rows)

\* the keys of a selection, whatever their order
keysOf(stats) == {stats[i] : i \in 1..Len(stats)}

\* C27: Selector/editor agreement.  Whenever the check boxes are shown and no
\* change of theirs is still on its way to the editor, the keys ticked in
\* StatsSelector are the keys of the editor's selectedStats, so that the next
\* toggle changes the rendered selection by exactly the key toggled.
C27_SelectorShowsEditorSelection ==
    (ControlsShown /\ statsTimeouts = <<>>) =>
        keysOf(selectorStats) = keysOf(selectedStats)

\* C28: Refreshed credentials are persisted.  Whenever a route has refreshed
\* the token and the fetch with the new token has succeeded, the response
\* returned sets the cookies of the new token pair, and the browser holds
\* that pair for its next request.
C28_RefreshedPairIsSet ==
    (request.pc = "done" /\ request.refresh = "ok" /\ request.retry = "ok") =>
        /\ request.setCookie = "refreshed"
        /\ cookies = [access |-> "refreshed", refresh |-> "refreshed"]

\* C30: Session continuity across access-token expiry.  A request to an
\* activity route that comes without the access token cookie (it has expired)
\* but with the refresh token cookie is not turned down as unauthorized: the
\* route refreshes the token.
C30_ExpiredAccessTokenIsRefreshed ==
    (/\ request.pc = "done"
     /\ request.status # 400
     /\ ~request.hasAccessToken
     /\ request.hasRefreshToken) =>
        (request.status # 401 /\ request.refreshes = 1)

RECURSIVE pagesUpTo(_)
\* pages 1..n of the list, one after the other
pagesUpTo(n) == IF n = 0 THEN <<>> ELSE pagesUpTo(n - 1) \o PageOf(n)

\* C29: Activity list pagination.  After any logins, logouts and Load More
\* clicks the list is pages 1..n in order for some n, with no page in it
\* twice; and when no fetch is in flight and none has failed, Load More is
\* offered only if the page fetched last was not empty.
C29_ListIsPagesInOrder ==
    /\ \E n \in 0..MaxPage : selector.activities = pagesUpTo(n)
    /\ (/\ isLoggedIn
        /\ selector.hasMore
        /\ Len(selector.activities) > 0
        /\ Len(listFetches) = 0
        /\ selector.error = "none") => Len(PageOf(selector.page)) > 0

====
